---- MODULE Spec2Model ----
(***************************************************************************)
(* Model of scripts/wb2_expand_climatology.py: expansion of a periodic     *)
(* climatology (dayofyear, optionally hour) into a dense time series that  *)
(* is written chunk by chunk into a Zarr store by a Beam pipeline.         *)
(*                                                                         *)
(* Timestamps are whole hours since 2016-01-01T00:00.  An unset flag       *)
(* (Python None) is the empty tuple, a set flag a one-element tuple.       *)
(***************************************************************************)
EXTENDS Integers, Sequences, FiniteSets, TLC

VARIABLES
  pc,              \* position of the process: start, main, opened, construct,
                   \* running, completed, failed, usage_error
  flags,           \* parsed command-line flags
  zarr_input,      \* what the store at input_path holds: dataset and chunks
  climatology,     \* dataset returned by xbeam.open_zarr
  input_chunks,    \* chunks returned by xbeam.open_zarr
  times,           \* the time index built by pd.date_range
  time_chunk_size, \* resolved chunk size
  offsets,         \* the list handed to beam.Create
  pending,         \* work items not yet processed
  emitted,         \* (key, fragment) pairs produced and not yet written
  written,         \* (key, fragment) pairs committed to the store
  store,           \* the destination Zarr store
  error            \* the exception that ended the run, if any

vars == <<pc, flags, zarr_input, climatology, input_chunks, times,
          time_chunk_size, offsets, pending, emitted, written, store, error>>

----------------------------------------------------------------------------
(* Bounds of the model *)

MaxChunkSize == 3
MaxInputChunk == 2
MaxVars == 2

UNSET == <<>>
Some(x) == <<x>>
Val(f) == f[1]

\* 2016-12-31T18:00, on the last day (dayofyear 366) of a leap year, and
\* 2017-01-01T00:00
StartTimes == { 365 * 24 + 18, 366 * 24 }

\* time_stop - time_start in hours: a reversed range, a single timestamp, a
\* range that is no multiple of any period step, and 18 hours
SpanHours == { 0 - 9, 0, 9, 18 }

----------------------------------------------------------------------------
(* Calendar arithmetic of pandas: .dt.dayofyear and .dt.hour *)

IsLeap(y) == (y % 4 = 0 /\ y % 100 # 0) \/ y % 400 = 0

DaysInYear(y) == IF IsLeap(y) THEN 366 ELSE 365

RECURSIVE DayOfYearFrom(_, _)
DayOfYearFrom(d, y) ==
  IF d < DaysInYear(y) THEN d + 1 ELSE DayOfYearFrom(d - DaysInYear(y), y + 1)

dayofyear(t) == DayOfYearFrom(t \div 24, 2016)

hour(t) == t % 24

----------------------------------------------------------------------------
(* Datasets *)

NoHour == 0 - 1
NoData == <<>>

EmptyDataset == [coords |-> {}, dayofyear |-> {}, hour |-> <<>>, data_vars |-> {}]
NoChunks == [dayofyear |-> 0, hour |-> <<>>]

\* the value the climatology holds for a variable at a periodic label
ClimValue(ds, v, d, h) == <<v, d, IF "hour" \in ds.coords THEN h ELSE NoHour>>

HourAxes == { <<0, 6, 12, 18>>, <<0, 12>> }
DayAxes == { 1..366, 1..365 }

Climatologies ==
  { [coords |-> {"dayofyear", "hour", "latitude"}, dayofyear |-> D, hour |-> H,
     data_vars |-> 1..V] : D \in DayAxes, H \in HourAxes, V \in 1..MaxVars }
  \cup
  { [coords |-> {"dayofyear", "latitude"}, dayofyear |-> D, hour |-> <<>>,
     data_vars |-> 1..V] : D \in DayAxes, V \in 1..MaxVars }

ChunksOf(ds) ==
  IF "hour" \in ds.coords
    THEN { [dayofyear |-> a, hour |-> Some(2)] : a \in 1..MaxInputChunk }
    ELSE { [dayofyear |-> a, hour |-> UNSET] : a \in 1..MaxInputChunk }

ZarrInputs ==
  UNION { { [dataset |-> ds, chunks |-> ch] : ch \in ChunksOf(ds) } : ds \in Climatologies }

FlagValues ==
  [ input_path : {UNSET, Some("climatology.zarr")},
    output_path : {UNSET, Some("forecast.zarr")},
    time_start : StartTimes,
    time_stop : { a + b : a \in StartTimes, b \in SpanHours },
    time_chunk_size : {UNSET} \cup { Some(c) : c \in (0 - 1)..MaxChunkSize } ]

----------------------------------------------------------------------------
(* Python and pandas helpers used by main and select_climatology *)

Min(a, b) == IF a < b THEN a ELSE b
Max(a, b) == IF a > b THEN a ELSE b

Range(s) == { s[i] : i \in 1..Len(s) }

\* date_range with the stop taken as exclusive
RECURSIVE date_range_exclusive(_, _, _)
date_range_exclusive(start, stop, freq) ==
  IF start >= stop THEN <<>>
  ELSE <<start>> \o date_range_exclusive(start + freq, stop, freq)

\* pd.date_range(start, stop, freq): start, start+freq, ... while <= stop
RECURSIVE date_range(_, _, _)
date_range(start, stop, freq) ==
  IF start > stop THEN <<>>
  ELSE <<start>> \o date_range(start + freq, stop, freq)

\* the chunk count rounded down instead of up
floor_div(n, c) ==
  IF c > 0 THEN n \div c ELSE 0 - (n \div (0 - c))

\* math.ceil(n / c) for an integer n >= 0 and c # 0
ceil_div(n, c) ==
  IF c > 0 THEN (n + c - 1) \div c ELSE 0 - (n \div (0 - c))

\* range(k) as a sequence: empty when k <= 0
range(k) == IF k <= 0 THEN <<>> ELSE [i \in 1..k |-> i - 1]

\* Python s[start:stop]: both ends clipped to the sequence
SliceBound(x, n) == IF x < 0 THEN Max(n + x, 0) ELSE Min(x, n)

SliceSeq(s, start, stop) ==
  LET lo == SliceBound(start, Len(s))
      hi == SliceBound(stop, Len(s))
  IN  IF lo >= hi THEN <<>> ELSE [i \in 1..(hi - lo) |-> s[lo + i]]

----------------------------------------------------------------------------
(* select_climatology *)

\* a key that ignores the chunk's offset
Key0(start, variable_name) == [time |-> 0, vars |-> {variable_name}]

Key(start, variable_name) == [time |-> start, vars |-> {variable_name}]

\* sel that broadcasts the label of the first timestamp over the chunk
sel_first_label(ds, chunk_times, use_hour) ==
  LET found(t) == /\ dayofyear(t) \in ds.dayofyear
                  /\ use_hour => hour(t) \in Range(ds.hour)
  IN  IF \A i \in 1..Len(chunk_times) : found(chunk_times[i])
        THEN [ok |-> TRUE,
              chunk |-> [coords |-> ds.coords \cup {"time"},
                         time |-> chunk_times,
                         data_vars |-> ds.data_vars,
                         values |-> [v \in ds.data_vars |->
                            [i \in 1..Len(chunk_times) |->
                               ClimValue(ds, v, dayofyear(chunk_times[1]),
                                         hour(chunk_times[1]))]]]]
        ELSE [ok |-> FALSE, chunk |-> EmptyDataset]

\* sel that silently drops the timestamps whose label is missing
sel_skip_missing(ds, chunk_times, use_hour) ==
  LET found(t) == /\ dayofyear(t) \in ds.dayofyear
                  /\ use_hour => hour(t) \in Range(ds.hour)
      kept == SelectSeq(chunk_times, found)
  IN  [ok |-> TRUE,
       chunk |-> [coords |-> ds.coords \cup {"time"},
                  time |-> kept,
                  data_vars |-> ds.data_vars,
                  values |-> [v \in ds.data_vars |->
                     [i \in 1..Len(kept) |->
                        ClimValue(ds, v, dayofyear(kept[i]), hour(kept[i]))]]]]

\* Dataset.sel with pointwise label indexers along the new dimension time:
\* a label that the index does not hold raises KeyError.
sel(ds, chunk_times, use_hour) ==
  LET found(t) == /\ dayofyear(t) \in ds.dayofyear
                  /\ use_hour => hour(t) \in Range(ds.hour)
  IN  IF \A i \in 1..Len(chunk_times) : found(chunk_times[i])
        THEN [ok |-> TRUE,
              chunk |-> [coords |-> ds.coords \cup {"time"},
                         time |-> chunk_times,
                         data_vars |-> ds.data_vars,
                         values |-> [v \in ds.data_vars |->
                            [i \in 1..Len(chunk_times) |->
                               ClimValue(ds, v, dayofyear(chunk_times[i]),
                                         hour(chunk_times[i]))]]]]
        ELSE [ok |-> FALSE, chunk |-> EmptyDataset]

\* del chunk.coords[name]: KeyError when name is not a coordinate
del_coord(r, name) ==
  IF ~r.ok THEN r
  ELSE IF name \in r.chunk.coords
    THEN [ok |-> TRUE, chunk |-> [r.chunk EXCEPT !.coords = @ \ {name}]]
    ELSE [ok |-> FALSE, chunk |-> EmptyDataset]

\* chunk[[variable_name]]
single_variable(chunk, variable_name) ==
  [coords |-> chunk.coords, time |-> chunk.time, data_vars |-> {variable_name},
   values |-> chunk.values[variable_name]]

\* The generator as a whole: an exception is raised before the first yield,
\* otherwise one (key, fragment) pair per variable.
select_climatology(time_slice, ds, time_index) ==
  LET chunk_times == SliceSeq(time_index, time_slice.start, time_slice.stop)
      selected == IF "hour" \in ds.coords
                    THEN sel(ds, chunk_times, TRUE)
                    ELSE sel(ds, chunk_times, FALSE)
      stripped == IF "hour" \in ds.coords
                    THEN del_coord(del_coord(selected, "dayofyear"), "hour")
                    ELSE del_coord(selected, "hour")
  IN  IF ~selected.ok
        THEN [ok |-> FALSE, error |-> "LookupError", out |-> {}]
      ELSE IF ~stripped.ok
        THEN [ok |-> FALSE, error |-> "KeyError", out |-> {}]
      ELSE [ok |-> TRUE, error |-> "",
            out |-> { [key |-> Key(time_slice.start, v),
                       fragment |-> single_variable(stripped.chunk, v)]
                      : v \in stripped.chunk.data_vars }]

----------------------------------------------------------------------------
(* main *)

\* lines 83-88
hour_delta(ds) ==
  IF "hour" \notin ds.coords THEN 24 ELSE ds.hour[2] - ds.hour[1]

\* lines 100-103
resolve_chunk_size(flag, chunks) ==
  IF flag = UNSET
    THEN chunks.dayofyear * (IF chunks.hour = UNSET THEN 1 ELSE Val(chunks.hour))
    ELSE Val(flag)

\* line 117: [i * time_chunk_size for i in range(time_chunk_count)]
create_offsets(n, c) ==
  LET r == range(ceil_div(n, c)) IN [i \in 1..Len(r) |-> r[i] * c]

\* line 118
to_slice(start, c) == [start |-> start, stop |-> start + c]

\* the registry of required flags that app.run validates: lines 126-128 call
\* app.run before flags.mark_flag_as_required, and app.run does not return
RequiredFlags == {}

FlagUnset(name) ==
  \/ name = "input_path" /\ flags.input_path = UNSET
  \/ name = "output_path" /\ flags.output_path = UNSET

NoError == [kind |-> "", item |-> 0 - 1]

EmptyStore == [created |-> FALSE, time |-> <<>>, time_chunk |-> 0, data |-> <<>>]

Init ==
  /\ pc = "start"
  /\ flags \in FlagValues
  /\ flags.time_stop - flags.time_start \in SpanHours
  /\ zarr_input \in ZarrInputs
  /\ climatology = EmptyDataset
  /\ input_chunks = NoChunks
  /\ times = <<>>
  /\ time_chunk_size = 0
  /\ offsets = <<>>
  /\ pending = {}
  /\ emitted = {}
  /\ written = {}
  /\ store = EmptyStore
  /\ error = NoError

\* app.run(main): parse the flags, validate the registered ones, call main
app_run ==
  /\ pc = "start"
  /\ pc' = IF \E f \in RequiredFlags : FlagUnset(f) THEN "usage_error" ELSE "main"
  /\ UNCHANGED <<flags, zarr_input, climatology, input_chunks, times,
                 time_chunk_size, offsets, pending, emitted, written, store, error>>

\* line 81: xbeam.open_zarr(INPUT_PATH.value)
main_open_zarr ==
  /\ pc = "main"
  /\ IF flags.input_path = UNSET
       THEN /\ pc' = "failed"
            /\ error' = [kind |-> "StorageError", item |-> 0 - 1]
            /\ UNCHANGED <<climatology, input_chunks>>
       ELSE /\ pc' = "opened"
            /\ climatology' = zarr_input.dataset
            /\ input_chunks' = zarr_input.chunks
            /\ UNCHANGED error
  /\ UNCHANGED <<flags, zarr_input, times, time_chunk_size, offsets, pending,
                 emitted, written, store>>

\* lines 83-108: time index, chunk size, chunk count
main_time_grid ==
  /\ pc = "opened"
  /\ LET index == date_range(flags.time_start, flags.time_stop,
                             hour_delta(climatology))
         c == resolve_chunk_size(flags.time_chunk_size, input_chunks)
     IN  /\ times' = index
         /\ time_chunk_size' = c
         /\ IF c = 0
              THEN /\ pc' = "failed"
                   /\ error' = [kind |-> "ZeroDivisionError", item |-> 0 - 1]
                   /\ UNCHANGED offsets
              ELSE /\ pc' = "construct"
                   /\ offsets' = create_offsets(Len(index), c)
                   /\ UNCHANGED error
  /\ UNCHANGED <<flags, zarr_input, climatology, input_chunks, pending,
                 emitted, written, store>>

\* lines 94-98 and 114-122: the pipeline graph is built; ChunksToZarr sets up
\* the destination store from the template.  What the writer does with an
\* unset output path is left to the storage library: either outcome.
main_build_pipeline ==
  /\ pc = "construct"
  /\ \E ok \in (IF flags.output_path = UNSET THEN BOOLEAN ELSE {TRUE}) :
       IF ok
         THEN /\ pc' = "running"
              /\ pending' = Range(offsets)
              /\ store' = [created |-> TRUE,
                           time |-> times,
                           time_chunk |-> time_chunk_size,
                           data |-> [v \in climatology.data_vars |->
                                       [i \in 1..Len(times) |-> NoData]]]
              /\ UNCHANGED error
         ELSE /\ pc' = "failed"
              /\ error' = [kind |-> "StorageError", item |-> 0 - 1]
              /\ UNCHANGED <<pending, store>>
  /\ UNCHANGED <<flags, zarr_input, climatology, input_chunks, times,
                 time_chunk_size, offsets, emitted, written>>

\* lines 118-119: one work item goes through Map(slice) and
\* FlatMap(select_climatology); an exception fails the pipeline
run_select_climatology(start) ==
  /\ pc = "running"
  /\ start \in pending
  /\ pending' = pending \ {start}
  /\ LET r == select_climatology(to_slice(start, time_chunk_size),
                                 climatology, times)
     IN  IF r.ok
           THEN /\ emitted' = emitted \cup
                      { [item |-> start, key |-> e.key, fragment |-> e.fragment]
                        : e \in r.out }
                /\ UNCHANGED <<pc, error>>
           ELSE /\ pc' = "failed"
                /\ error' = [kind |-> r.error, item |-> start]
                /\ UNCHANGED emitted
  /\ UNCHANGED <<flags, zarr_input, climatology, input_chunks, times,
                 time_chunk_size, offsets, written, store>>

\* the region of the store a (key, fragment) pair is written to
write_region(data, key, fragment) ==
  [v \in DOMAIN data |->
     IF v \in key.vars
       THEN [i \in DOMAIN data[v] |->
               IF i > key.time /\ i <= key.time + Len(fragment.values)
                 THEN fragment.values[i - key.time]
                 ELSE data[v][i]]
       ELSE data[v]]

\* lines 120-122: xbeam.ChunksToZarr commits one (key, fragment) pair
run_chunks_to_zarr(e) ==
  /\ pc = "running"
  /\ e \in emitted
  /\ emitted' = emitted \ {e}
  /\ written' = written \cup {e}
  /\ store' = [store EXCEPT !.data = write_region(@, e.key, e.fragment)]
  /\ UNCHANGED <<pc, flags, zarr_input, climatology, input_chunks, times,
                 time_chunk_size, offsets, pending, error>>

\* completion declared as soon as every work item has been handed out
pipeline_drained_early == pending = {}

\* leaving the with-block (line 114) waits for every stage to drain
pipeline_drained == pending = {} /\ emitted = {}

run_finish ==
  /\ pc = "running"
  /\ pipeline_drained
  /\ pc' = "completed"
  /\ UNCHANGED <<flags, zarr_input, climatology, input_chunks, times,
                 time_chunk_size, offsets, pending, emitted, written, store, error>>

Next ==
  \/ app_run
  \/ main_open_zarr
  \/ main_time_grid
  \/ main_build_pipeline
  \/ \E start \in pending : run_select_climatology(start)
  \/ \E e \in emitted : run_chunks_to_zarr(e)
  \/ run_finish

Spec == Init /\ [][Next]_vars

----------------------------------------------------------------------------
(* Vocabulary of the properties *)

GridBuilt == pc \in {"construct", "running", "completed"}

PipelineStarted == store.created

\* work items that have gone through select_climatology
Processed == IF PipelineStarted THEN Range(offsets) \ pending ELSE {}

Fragments(start) == { e \in emitted \cup written : e.item = start }

\* positions 1..n of the time index covered by the work item at an offset
ChunkPositions(start) ==
  Range(SliceSeq([i \in 1..Len(times) |-> i], start, start + time_chunk_size))

LabelPresent(t) ==
  /\ dayofyear(t) \in climatology.dayofyear
  /\ "hour" \in climatology.coords => hour(t) \in Range(climatology.hour)

LabelsPresent(start) == \A i \in ChunkPositions(start) : LabelPresent(times[i])

ValidRange == flags.time_stop >= flags.time_start

FloorSteps == (flags.time_stop - flags.time_start) \div hour_delta(climatology)

CeilSteps ==
  (flags.time_stop - flags.time_start + hour_delta(climatology) - 1)
    \div hour_delta(climatology)

EvenlySpaced ==
  /\ Len(times) >= 1 => times[1] = flags.time_start
  /\ \A i \in 1..(Len(times) - 1) :
       /\ times[i] < times[i + 1]
       /\ times[i + 1] - times[i] = hour_delta(climatology)

\* the store content a strictly sequential, in-order run produces
RECURSIVE write_all(_, _)
write_all(data, out) ==
  IF out = {} THEN data
  ELSE LET e == CHOOSE x \in out : TRUE
       IN  write_all(write_region(data, e.key, e.fragment), out \ {e})

RECURSIVE sequential_run(_, _)
sequential_run(data, k) ==
  IF k > Len(offsets) THEN data
  ELSE sequential_run(
         write_all(data,
                   select_climatology(to_slice(offsets[k], time_chunk_size),
                                      climatology, times).out),
         k + 1)

BlankData == [v \in climatology.data_vars |-> [i \in 1..Len(times) |-> NoData]]

----------------------------------------------------------------------------
(* Properties *)

C2_ChunksPartitionIndex ==
  (GridBuilt /\ time_chunk_size >= 1) =>
    /\ UNION { ChunkPositions(offsets[k]) : k \in 1..Len(offsets) }
         = 1..Len(times)
    /\ \A j, k \in 1..Len(offsets) :
         j # k => ChunkPositions(offsets[j]) \cap ChunkPositions(offsets[k]) = {}
    /\ \A k \in 1..Len(offsets) :
         /\ offsets[k] = (k - 1) * time_chunk_size
         /\ offsets[k] >= 0 /\ offsets[k] < Len(times)
         /\ ChunkPositions(offsets[k]) # {}
         /\ k < Len(offsets) =>
              Cardinality(ChunkPositions(offsets[k])) = time_chunk_size

\* several chunks, the last one short
C2_Witness ==
  /\ GridBuilt
  /\ time_chunk_size >= 2
  /\ Len(offsets) >= 2
  /\ Len(times) % time_chunk_size # 0

\* C3 as stated: the time index has ceil((stop - start) / step) + 1 entries.
C3_CeilLength ==
  (GridBuilt /\ ValidRange) =>
    /\ Len(times) = CeilSteps + 1
    /\ EvenlySpaced

\* C3 amended: the time index has floor((stop - start) / step) + 1 entries,
\* starts at time_start, is strictly increasing and evenly spaced by the
\* period step; its last entry does not pass time_stop.
C3_FloorLength ==
  (GridBuilt /\ ValidRange) =>
    /\ Len(times) = FloorSteps + 1
    /\ EvenlySpaced
    /\ Len(times) >= 1 /\ times[Len(times)] <= flags.time_stop

\* a range that is no multiple of the period step
C3_Witness ==
  /\ GridBuilt
  /\ ValidRange
  /\ (flags.time_stop - flags.time_start) % hour_delta(climatology) # 0
  /\ Len(times) >= 2

\* C4: with time_stop before time_start, or a chunk size that is zero or
\* negative, nothing is dispatched, nothing is written and the run does not
\* complete.
C4_InvalidConfigurationFails ==
  (\/ flags.time_stop < flags.time_start
   \/ resolve_chunk_size(flags.time_chunk_size, zarr_input.chunks) <= 0) =>
    /\ pc \notin {"running", "completed"}
    /\ ~store.created

\* C5: main never runs with input_path or output_path unset.
C5_RequiredFlagsEnforced ==
  (flags.input_path = UNSET \/ flags.output_path = UNSET) =>
    pc \in {"start", "usage_error"}

\* C6: a work item with a timestamp whose label the climatology lacks ends in
\* a lookup failure and yields no fragment at all.
C6_MissingLabelRaises ==
  \A start \in Processed :
    ~LabelsPresent(start) =>
      /\ pc = "failed"
      /\ error = [kind |-> "LookupError", item |-> start]
      /\ Fragments(start) = {}

\* a climatology without dayofyear 366 and a chunk on 2016-12-31
C6_Witness ==
  /\ pc = "failed"
  /\ error.kind = "LookupError"
  /\ 366 \notin climatology.dayofyear
  /\ \E i \in ChunkPositions(error.item) : dayofyear(times[i]) = 366

\* C7: a processed work item whose labels are all present has exactly one
\* (key, fragment) pair per variable, keyed by its offset and that variable,
\* each fragment holding that one variable over all timestamps of the chunk.
C7_OneFragmentPerVariable ==
  \A start \in Processed :
    LabelsPresent(start) =>
      /\ Cardinality(Fragments(start)) = Cardinality(climatology.data_vars)
      /\ \A v \in climatology.data_vars :
           \E e \in Fragments(start) :
             /\ e.key = [time |-> start, vars |-> {v}]
             /\ e.fragment.data_vars = {v}
             /\ Len(e.fragment.time) = Cardinality(ChunkPositions(start))
             /\ Len(e.fragment.values) = Cardinality(ChunkPositions(start))

\* C8: the run is completed only when every work item has been processed
\* without error and each of its fragments has been written; a work item
\* whose selection fails leaves the run failed.
C8_CompleteOnlyWhenAllWritten ==
  /\ pc = "completed" =>
       /\ pending = {}
       /\ emitted = {}
       /\ error = NoError
       /\ \A k \in 1..Len(offsets) :
            /\ select_climatology(to_slice(offsets[k], time_chunk_size),
                                  climatology, times).ok
            /\ \A v \in climatology.data_vars :
                 \E e \in written : e.item = offsets[k] /\ v \in e.key.vars
  /\ \A start \in Processed :
       ~select_climatology(to_slice(start, time_chunk_size),
                           climatology, times).ok
         => pc = "failed" /\ error.item = start

C8_Witness ==
  /\ pc = "completed"
  /\ Len(offsets) >= 2
  /\ Cardinality(written) >= 2

\* C9: whatever the order of the work items and of the writes, the final
\* store is the one a sequential in-order run produces; no key is written by
\* two work items; the climatology and the time index stay as loaded.
C9_OrderIndependent ==
  /\ pc = "completed" => store.data = sequential_run(BlankData, 1)
  /\ \A a, b \in emitted \cup written : a.key = b.key => a = b
  /\ PipelineStarted =>
       /\ climatology = zarr_input.dataset
       /\ input_chunks = zarr_input.chunks
       /\ times = store.time

C9_Witness ==
  /\ pc = "completed"
  /\ Len(offsets) >= 2
  /\ Cardinality(climatology.data_vars) >= 2
  /\ Cardinality(written) >= 4

\* C10: for a daily climatology whose dayofyear labels cover the chunk the
\* selection succeeds and its fragments carry neither dayofyear nor hour.
C10_PeriodicCoordsStripped ==
  \A start \in Processed :
    ("hour" \notin climatology.coords /\ LabelsPresent(start)) =>
      /\ error.item # start
      /\ Fragments(start) # {}
      /\ \A e \in Fragments(start) :
           /\ "time" \in e.fragment.coords
           /\ e.fragment.coords \cap {"dayofyear", "hour"} = {}

====
